---- MODULE Spec2Model ----
(***************************************************************************)
(* A model of binchotan's core: the request dispatcher (connection.rs),    *)
(* the authorization flow (auth.rs, main.rs), the credential store         *)
(* (cache.rs) and the session builder Auth::clients (auth.rs).             *)
(***************************************************************************)
EXTENDS Integers, Sequences, FiniteSets, TLC

VARIABLES
    \* ---- request dispatcher (connection.rs) ----
    clients,        \* Handler.clients: user_id -> ApiClient
    dpc,            \* "idle" | "received" | "responded" | "panicked"
    req,            \* <<>> or <<the request being handled>>
    resp,           \* <<>> or <<the Response handle() returned>>
    calls,          \* upstream API calls made for the current request
    loads,          \* number of Filter::load calls made for the current request
    runs,           \* filter.run calls made: <<tweet index, filter index, input>>
    fetched,        \* <<>> or <<the timeline the upstream API returned>>
    chain,          \* <<>> or <<the filter chain Filter::load returned>>
    info_enabled,   \* whether the tracing subscriber records INFO events
    raised,         \* the AppError handle_inner returned for the current request, "" if none
    clients0,       \* Handler.clients as it was when the Handler was built
    hist,           \* "after_filter_failure" once a request ended in a filter's
                    \* failure, "fresh" until then
    \* ---- authorization flow (auth.rs generate_tokens, main.rs authenticate) ----
    apc,            \* "init" | "listening" | "checked" | "exchanged" | "done" | "failed"
    variant,        \* which of the two implementations of the flow is running
    csrf,           \* the CSRF state generated with the authorization URL
    query,          \* the query pairs of the callback, in order
    token_requests, \* requests made to the token endpoint in this flow
    page_sent,      \* whether the success page was sent to the browser
    tokens,         \* <<>> or <<the token pair the token endpoint gave>>
    accepted,       \* how many inbound callbacks the flow has taken (recv / read_line)
    parsed,         \* whether the callback URL was parsed into query
    returned,       \* <<>> or <<the token pair returned to the caller>>
    aerr,           \* the error the flow failed with, "" if none
    \* ---- credential store (cache.rs) ----
    file,           \* the content of the file at cache_path
    cpc,            \* "off" | "idle" | "saved" | "loaded"
    before,         \* <<>> or <<the file as it was before the last save>>
    saved,          \* <<>> or <<the arguments of the last save that returned Ok,
                    \*           if nothing else has written the file since>>
    loaded,         \* <<>> or <<what the last load returned>>
    \* ---- session builder (auth.rs Auth::clients) ----
    cfg_scopes,     \* Auth.scopes: the configured scope set
    spc,            \* "off" | "init" | "validating" | "done" | "failed"
    file0,          \* the file as it was when clients() was called
    cache,          \* <<>> or <<cache.content>>
    pending,        \* stored account ids the loop has not visited yet
    checked,        \* stored account ids whose token was given to validate_token
    passed,         \* stored account ids whose token validate_token found valid
    res,            \* the map being built: user_id -> ApiClient
    writes,         \* writes of the store made by clients()
    sret,           \* <<>> or <<the map clients() returned>>
    serr,           \* the error clients() returned, "" if none
    \* ---- re-authorization that saves a new credential ----
    rpc,            \* "off" | "init" | "loaded" | "done" | "failed"
    rcache,         \* <<>> or <<the store content the re-authorization loaded>>
    rid             \* the account re-authorized, "" before it is known

dvars == <<clients, dpc, req, resp, calls, loads, runs, fetched, chain, info_enabled,
          raised, clients0, hist>>
avars == <<apc, variant, csrf, query, token_requests, page_sent, tokens, aerr,
          accepted, parsed, returned>>
cvars == <<file, cpc, before, saved, loaded>>
svars == <<cfg_scopes, spc, file0, cache, pending, checked, passed, res, writes, sret, serr>>
rvars == <<rpc, rcache, rid>>
vars == <<dvars, avars, cvars, svars, rvars>>

(***************************************************************************)
(* Bounds of the model.                                                    *)
(***************************************************************************)
MaxTweets == 2      \* longest timeline returned by the upstream API
MaxFilters == 2     \* longest filter chain
TweetMod == 3       \* tweets are the values 0 .. TweetMod-1

(***************************************************************************)
(* Request dispatcher: data                                                *)
(***************************************************************************)
JSONRPC_VERSION == "2.0"
VERSION == "build-version"

Versions == {"2.0", "1.0"}
Method == {"Plain", "HomeTimeline", "Status", "AccountList"}
RequestIds == {"1", "2"}
KnownUsers == {"u1", "u2"}
UserIds == KnownUsers \cup {"u3"}
NoUser == "-"

\* The keys a params object may carry; "x" stands for any other key.
ParamKeys == {"user_id", "http_method", "endpoint", "api_params", "x"}

\* The raw params of a request as they arrive on the wire: no params at all,
\* or an object with some keys (user_id's value matters, the others do not).
RawParams ==
    {[present |-> FALSE, keys |-> {}, user_id |-> NoUser]}
    \cup {[present |-> TRUE, keys |-> ks, user_id |-> NoUser] :
            ks \in SUBSET (ParamKeys \ {"user_id"})}
    \cup {[present |-> TRUE, keys |-> ks \cup {"user_id"}, user_id |-> u] :
            ks \in SUBSET (ParamKeys \ {"user_id"}), u \in UserIds}

\* Mutant of RequestParams_deserialize: MapWithId is declared before Plain.
RequestParams_deserialize_bug(raw) ==
    IF ~raw.present
    THEN [tag |-> "Map", user_id |-> NoUser, map |-> {}]
    ELSE IF {"user_id", "api_params"} \subseteq raw.keys
    THEN [tag |-> "MapWithId", user_id |-> raw.user_id, map |-> {}]
    ELSE IF {"user_id", "http_method", "endpoint", "api_params"} \subseteq raw.keys
    THEN [tag |-> "Plain", user_id |-> raw.user_id, map |-> {}]
    ELSE [tag |-> "Map", user_id |-> NoUser, map |-> raw.keys]

\* #[serde(untagged)] RequestParams: the first variant, in declaration order,
\* all of whose fields are present; unknown keys are ignored by the struct
\* variants.  #[serde(default)] gives Map({}) when params is missing.
RequestParams_deserialize(raw) ==
    IF ~raw.present
    THEN [tag |-> "Map", user_id |-> NoUser, map |-> {}]
    ELSE IF {"user_id", "http_method", "endpoint", "api_params"} \subseteq raw.keys
    THEN [tag |-> "Plain", user_id |-> raw.user_id, map |-> {}]
    ELSE IF {"user_id", "api_params"} \subseteq raw.keys
    THEN [tag |-> "MapWithId", user_id |-> raw.user_id, map |-> {}]
    ELSE [tag |-> "Map", user_id |-> NoUser, map |-> raw.keys]

Request ==
    {[jsonrpc |-> v, method |-> m, params |-> RequestParams_deserialize(raw),
      raw |-> raw, id |-> i] :
        v \in Versions, m \in Method, raw \in RawParams, i \in RequestIds}

\* AppError kinds that From<AppError> for ResponseError maps to a code.
MappedErrors ==
    {"Io", "ApiResponseParse", "ApiResponseNotFound", "ApiResponseSerialize",
     "ApiRequest", "ApiResponseStatus", "OAuth", "OAuthUrlParse",
     "SocketPayloadParse", "RpcVersion", "RpcParamsParse", "RpcParamsMismatch",
     "RpcTooLarge", "Lua", "Other", "ApiExpiredToken"}

\* Mutant of ResponseError_from: AppError::Lua has no arm of its own.
ResponseError_from_bug(err) ==
    IF err \in MappedErrors \ {"Lua"}
    THEN [panic |-> FALSE,
          code |-> CASE err \in {"Io", "ApiResponseParse", "ApiResponseNotFound",
                                 "ApiResponseSerialize", "ApiRequest", "OAuth",
                                 "OAuthUrlParse", "ApiExpiredToken"} -> -32000
                     [] err = "ApiResponseStatus" -> -32001
                     [] err \in {"SocketPayloadParse", "RpcParamsParse"} -> -32700
                     [] err = "RpcVersion" -> -32600
                     [] err = "RpcParamsMismatch" -> -32602
                     [] err = "RpcTooLarge" -> -32603
                     [] err = "Other" -> -32099,
          message |-> err]
    ELSE [panic |-> TRUE, code |-> 0, message |-> err]

\* impl From<AppError> for ResponseError: the code, or the unreachable!() arm.
ResponseError_from(err) ==
    IF err \in MappedErrors
    THEN [panic |-> FALSE,
          code |-> CASE err \in {"Io", "ApiResponseParse", "ApiResponseNotFound",
                                 "ApiResponseSerialize", "ApiRequest", "OAuth",
                                 "OAuthUrlParse", "ApiExpiredToken"} -> -32000
                     [] err = "ApiResponseStatus" -> -32001
                     [] err \in {"SocketPayloadParse", "RpcParamsParse"} -> -32700
                     [] err = "RpcVersion" -> -32600
                     [] err = "RpcParamsMismatch" -> -32602
                     [] err = "RpcTooLarge" -> -32603
                     [] err = "Lua" -> -32002
                     [] err = "Other" -> -32099,
          message |-> err]
    ELSE [panic |-> TRUE, code |-> 0, message |-> err]

(***************************************************************************)
(* Request dispatcher: external capabilities (api.rs, filter.rs)           *)
(***************************************************************************)
Ok(v) == [tag |-> "Ok", val |-> v]
Err(e) == [tag |-> "Err", val |-> e]
Panic == [tag |-> "Panic", val |-> "panic"]

Tweet == 0 .. (TweetMod - 1)
SeqUpTo(S, n) == UNION {[1 .. k -> S] : k \in 0 .. n}

\* Failures the upstream API client may return.
ApiErrors == {"ApiRequest", "ApiResponseStatus", "ApiResponseParse", "ApiExpiredToken"}
\* Failures Filter::load may return (reading the scripts, compiling them).
LoadErrors == {"Io", "Lua"}

CallOutcomes == {Ok("body")} \cup {Err(e) : e \in ApiErrors}
TimelineOutcomes == {Ok(t) : t \in SeqUpTo(Tweet, MaxTweets)} \cup {Err(e) : e \in ApiErrors}

\* The filters a chain is made of.  Each is a function of the tweet it is given:
\* "inc" rewrites it, "dropzero" drops tweet 0, "failtop" raises a Lua error on
\* the largest tweet.
Filters == {"inc", "dropzero", "failtop"}
LoadOutcomes == {Ok(f) : f \in SeqUpTo(Filters, MaxFilters)} \cup {Err(e) : e \in LoadErrors}

\* filter.run(&tweet) -> Result<Option<Tweet>, AppError>
Filter_run(f, t) ==
    CASE f = "inc" -> Ok([some |-> TRUE, t |-> (t + 1) % TweetMod])
      [] f = "dropzero" -> IF t = 0 THEN Ok([some |-> FALSE, t |-> t])
                                    ELSE Ok([some |-> TRUE, t |-> t])
      [] f = "failtop" -> IF t = TweetMod - 1 THEN Err("Lua")
                                              ELSE Ok([some |-> TRUE, t |-> t])

(***************************************************************************)
(* Request dispatcher: the handlers                                        *)
(***************************************************************************)
\* Mutant of validate: the version is not compared.
validate_bug(rq) == Ok("unit")

\* Request::validate
validate(rq) ==
    IF rq.jsonrpc = JSONRPC_VERSION THEN Ok("unit") ELSE Err("RpcVersion")

Response(content, id) ==
    [jsonrpc |-> JSONRPC_VERSION, content |-> content, id |-> id]

\* Mutant of ChainStep: Some(t) does not replace the running value.
ChainStep_bug(filter, result) ==
    LET out == Filter_run(filter, result)
    IN IF out.tag = "Err"
       THEN [tag |-> "err", t |-> result]
       ELSE IF out.val.some
            THEN [tag |-> "next", t |-> result]
            ELSE [tag |-> "drop", t |-> result]

\* The body of the inner loop of handle_timeline (lines 229-232):
\* match filter.run(&result)? { Some(t) => result = t, None => continue 'outer }
ChainStep(filter, result) ==
    LET out == Filter_run(filter, result)
    IN IF out.tag = "Err"
       THEN [tag |-> "err", t |-> result]
       ELSE IF out.val.some
            THEN [tag |-> "next", t |-> out.val.t]
            ELSE [tag |-> "drop", t |-> result]

\* The inner loop of handle_timeline: one tweet through the chain from filter k
\* on.  result is the running value, rs the filter.run calls made so far.
RECURSIVE RunChain(_, _, _, _, _)
RunChain(filters, k, result, ti, rs) ==
    IF k > Len(filters)
    THEN [tag |-> "keep", t |-> result, runs |-> rs]
    ELSE LET st == ChainStep(filters[k], result)
             rs2 == Append(rs, <<ti, k, result>>)
         IN IF st.tag = "next"
            THEN RunChain(filters, k + 1, st.t, ti, rs2)
            ELSE [tag |-> st.tag, t |-> result, runs |-> rs2]

\* The outer loop of handle_timeline ('outer: for tweet in tweets).
RECURSIVE FilterTweets(_, _, _, _, _)
FilterTweets(tweets, ti, filters, filtered_tweets, rs) ==
    IF ti > Len(tweets)
    THEN [err |-> FALSE, body |-> filtered_tweets, runs |-> rs]
    ELSE LET c == RunChain(filters, 1, tweets[ti], ti, rs)
         IN CASE c.tag = "err" -> [err |-> TRUE, body |-> <<>>, runs |-> c.runs]
              [] c.tag = "drop" ->
                    FilterTweets(tweets, ti + 1, filters, filtered_tweets, c.runs)
              [] c.tag = "keep" ->
                    FilterTweets(tweets, ti + 1, filters,
                                 Append(filtered_tweets, c.t), c.runs)

\* Mutant of handle_match: the error response is built without the request's id.
handle_match_bug(id, outcome) ==
    CASE outcome.tag = "Ok" -> [panic |-> FALSE, resp |-> <<outcome.val>>]
      [] outcome.tag = "Panic" -> [panic |-> TRUE, resp |-> <<>>]
      [] outcome.tag = "Err" ->
            LET resp_err == ResponseError_from(outcome.val)
            IN IF resp_err.panic
               THEN [panic |-> TRUE, resp |-> <<>>]
               ELSE [panic |-> FALSE,
                     resp |-> <<[jsonrpc |-> JSONRPC_VERSION,
                                 content |-> [tag |-> "Error", code |-> resp_err.code,
                                              message |-> resp_err.message],
                                 id |-> ""]>>]

\* Handler::handle, lines 146-157: what becomes of handle_inner's result.
handle_match(id, outcome) ==
    CASE outcome.tag = "Ok" -> [panic |-> FALSE, resp |-> <<outcome.val>>]
      [] outcome.tag = "Panic" -> [panic |-> TRUE, resp |-> <<>>]
      [] outcome.tag = "Err" ->
            LET resp_err == ResponseError_from(outcome.val)
            IN IF resp_err.panic
               THEN [panic |-> TRUE, resp |-> <<>>]
               ELSE [panic |-> FALSE,
                     resp |-> <<Response([tag |-> "Error", code |-> resp_err.code,
                                          message |-> resp_err.message], id)>>]

\* What a handler did on the way to its result: the upstream calls, the
\* timeline fetched, the filter chain loaded and the filter runs.
NoEffect == [calls |-> <<>>, fetched |-> <<>>, loads |-> 0, chain |-> <<>>, runs |-> <<>>]
Called(c) == [NoEffect EXCEPT !.calls = <<c>>]
Fetched(tl) == [Called("timeline") EXCEPT !.fetched = <<tl>>]
LoadTried(tl) == [Fetched(tl) EXCEPT !.loads = 1]
Loaded(tl, fs, rs) == [LoadTried(tl) EXCEPT !.chain = <<fs>>, !.runs = rs]

\* Mutant of Complete: a client whose token has expired is evicted from the map.
Complete_bug(outcome, e) ==
    LET out == handle_match(req[1].id, outcome)
    IN /\ dpc' = IF out.panic THEN "panicked" ELSE "responded"
       /\ resp' = out.resp
       /\ calls' = e.calls
       /\ loads' = e.loads
       /\ runs' = e.runs
       /\ fetched' = e.fetched
       /\ chain' = e.chain
       /\ raised' = IF outcome.tag = "Err" THEN outcome.val ELSE ""
       /\ clients' = IF outcome.tag = "Err" /\ outcome.val = "ApiExpiredToken"
                     THEN [u \in DOMAIN clients \ {req[1].params.user_id} |-> clients[u]]
                     ELSE clients
       /\ UNCHANGED <<req, info_enabled, clients0, hist>>
       /\ UNCHANGED <<avars, cvars, svars, rvars>>

\* handle() returns (or unwinds) after handle_inner ended in outcome with effects e.
Complete(outcome, e) ==
    LET out == handle_match(req[1].id, outcome)
    IN /\ dpc' = IF out.panic THEN "panicked" ELSE "responded"
       /\ resp' = out.resp
       /\ calls' = e.calls
       /\ loads' = e.loads
       /\ runs' = e.runs
       /\ fetched' = e.fetched
       /\ chain' = e.chain
       /\ raised' = IF outcome.tag = "Err" THEN outcome.val ELSE ""
       /\ UNCHANGED <<clients, req, info_enabled, clients0, hist>>
       /\ UNCHANGED <<avars, cvars, svars, rvars>>

handle_plain(rq) ==
    IF rq.params.tag = "Plain"
    THEN IF rq.params.user_id \in DOMAIN clients
         THEN \E out \in CallOutcomes :
                IF out.tag = "Err"
                THEN Complete(Err(out.val), Called("call"))
                ELSE Complete(Ok(Response([tag |-> "Plain", body |-> out.val], rq.id)),
                              Called("call"))
         ELSE Complete(Err("RpcUnknownAccount"), NoEffect)
    ELSE Complete(Err("RpcParamsMismatch"), NoEffect)

handle_timeline(rq) ==
    IF rq.params.tag # "MapWithId"
    THEN Complete(Err("RpcParamsMismatch"), NoEffect)
    ELSE IF rq.params.user_id \notin DOMAIN clients
    THEN Complete(Err("RpcUnknownAccount"), NoEffect)
    ELSE \E tl \in TimelineOutcomes :
        IF tl.tag = "Err"
        THEN Complete(Err(tl.val), Called("timeline"))
        ELSE IF info_enabled /\ Len(tl.val) = 0
        THEN \* info!(..., tweets[0]) indexes an empty Vec
             Complete(Panic, Fetched(tl.val))
        ELSE \E ld \in LoadOutcomes :
            IF ld.tag = "Err"
            THEN Complete(Err(ld.val), LoadTried(tl.val))
            ELSE LET f == FilterTweets(tl.val, 1, ld.val, <<>>, <<>>)
                 IN IF f.err
                    THEN Complete(Err("Lua"), Loaded(tl.val, ld.val, f.runs))
                    ELSE Complete(
                            Ok(Response([tag |-> "HomeTimeline", body |-> f.body], rq.id)),
                            Loaded(tl.val, ld.val, f.runs))

\* Mutant of handle_status: the map is not required to be empty.
handle_status_bug(rq) ==
    IF rq.params.tag = "Map"
    THEN Complete(Ok([jsonrpc |-> JSONRPC_VERSION,
                      content |-> [tag |-> "Status", version |-> VERSION],
                      id |-> rq.id]), NoEffect)
    ELSE Complete(Err("RpcParamsMismatch"), NoEffect)

\* Mutant of handle_status: the emptiness test is inverted.
handle_status_inverted(rq) ==
    IF rq.params.tag = "Map"
    THEN IF rq.params.map = {}
         THEN Complete(Err("RpcParamsMismatch"), NoEffect)
         ELSE Complete(Ok([jsonrpc |-> JSONRPC_VERSION,
                           content |-> [tag |-> "Status", version |-> VERSION],
                           id |-> rq.id]), NoEffect)
    ELSE Complete(Err("RpcParamsMismatch"), NoEffect)

handle_status(rq) ==
    IF rq.params.tag = "Map"
    THEN IF rq.params.map # {}
         THEN Complete(Err("RpcParamsMismatch"), NoEffect)
         ELSE Complete(Ok(Response([tag |-> "Status", version |-> VERSION], rq.id)),
                       NoEffect)
    ELSE Complete(Err("RpcParamsMismatch"), NoEffect)

handle_account_list(rq) ==
    IF rq.params.tag = "Map"
    THEN IF rq.params.map # {}
         THEN Complete(Err("RpcParamsMismatch"), NoEffect)
         ELSE Complete(Ok(Response([tag |-> "AccountList", user_ids |-> DOMAIN clients],
                                   rq.id)),
                       NoEffect)
    ELSE Complete(Err("RpcParamsMismatch"), NoEffect)

handle_inner(rq) ==
    IF validate(rq).tag = "Err"
    THEN Complete(validate(rq), NoEffect)
    ELSE CASE rq.method = "Plain" -> handle_plain(rq)
           [] rq.method = "HomeTimeline" -> handle_timeline(rq)
           [] rq.method = "Status" -> handle_status(rq)
           [] rq.method = "AccountList" -> handle_account_list(rq)

\* ApiClient: the account it acts for and the token it holds.
ApiClient(u, t) == [user_id |-> u, access_token |-> t]

DInit ==
    /\ clients \in {[u \in us |-> ApiClient(u, "t1")] : us \in SUBSET KnownUsers}
    /\ info_enabled \in BOOLEAN
    /\ dpc = "idle"
    /\ req = <<>>
    /\ resp = <<>>
    /\ calls = <<>>
    /\ loads = 0
    /\ runs = <<>>
    /\ fetched = <<>>
    /\ chain = <<>>
    /\ raised = ""
    /\ clients0 = clients
    /\ hist = "fresh"

\* The transport hands a deserialized request to the dispatcher.
Receive ==
    /\ dpc = "idle"
    /\ \E rq \in Request : req' = <<rq>>
    /\ dpc' = "received"
    /\ UNCHANGED <<clients, info_enabled, resp, calls, loads, runs, fetched, chain>>
    /\ UNCHANGED <<raised, clients0, hist>>
    /\ UNCHANGED <<avars, cvars, svars, rvars>>

\* The transport writes the response out; the dispatcher keeps nothing of the
\* request (Handler has no per-request fields).
Reply ==
    /\ dpc = "responded"
    /\ dpc' = "idle"
    /\ req' = <<>>
    /\ resp' = <<>>
    /\ calls' = <<>>
    /\ loads' = 0
    /\ runs' = <<>>
    /\ fetched' = <<>>
    /\ chain' = <<>>
    /\ raised' = ""
    /\ hist' = IF hist = "after_filter_failure" \/ (raised = "Lua" /\ chain # <<>>)
               THEN "after_filter_failure"
               ELSE hist
    /\ UNCHANGED <<clients, info_enabled, clients0>>
    /\ UNCHANGED <<avars, cvars, svars, rvars>>

\* Handler::handle
handle ==
    /\ dpc = "received"
    /\ handle_inner(req[1])

(***************************************************************************)
(* Authorization flow: Auth::generate_tokens (auth.rs) and authenticate    *)
(* (main.rs)                                                               *)
(***************************************************************************)
MaxQueryPairs == 2  \* most query pairs in a callback URL

Variants == {"generate_tokens", "authenticate"}
CsrfTokens == {"st1", "st2"}
\* A returned state is a generated one or differs from it in one character.
ReturnedStates == CsrfTokens \cup {"st1x"}
QueryPairs ==
    {<<"code", "c1">>, <<"x", "v">>} \cup {<<"state", v>> : v \in ReturnedStates}
Queries == SeqUpTo(QueryPairs, MaxQueryPairs)

\* pairs.query_pairs().find_map(|(k, v)| match k { key => Some(v), _ => None }):
\* the value of the first pair with that key, as <<v>>, or <<>> if there is none.
find_map(pairs, key) ==
    LET hits == {n \in 1 .. Len(pairs) : pairs[n][1] = key}
    IN IF hits = {}
       THEN <<>>
       ELSE <<pairs[CHOOSE n \in hits : \A m \in hits : n <= m][2]>>

\* Mutant of state_matches: the returned state is not compared.
state_matches_bug(state, state_returned) == TRUE

\* state.secret() != &state_returned  (auth.rs 92, main.rs 80), negated
state_matches(state, state_returned) == state = state_returned

\* Mutant of parse_callback: the state is looked up before the code.
parse_callback_bug(state, pairs) ==
    LET auth_code == find_map(pairs, "code")
        state_returned == find_map(pairs, "state")
    IN IF state_returned = <<>>
       THEN Err("no state was returned")
       ELSE IF auth_code = <<>>
       THEN Err("no authorization code was returned")
       ELSE IF ~state_matches(state, state_returned[1])
       THEN Err("invalid csrf state")
       ELSE Ok(auth_code[1])

\* Lines 77-94 of generate_tokens (65-82 of authenticate): the authorization
\* code and the state are looked up, then the state is compared.
parse_callback(state, pairs) ==
    LET auth_code == find_map(pairs, "code")
        state_returned == find_map(pairs, "state")
    IN IF auth_code = <<>>
       THEN Err("no authorization code was returned")
       ELSE IF state_returned = <<>>
       THEN Err("no state was returned")
       ELSE IF ~state_matches(state, state_returned[1])
       THEN Err("invalid csrf state")
       ELSE Ok(auth_code[1])

AFail(e) ==
    /\ apc' = "failed"
    /\ aerr' = e

AInit ==
    /\ apc = "init"
    /\ variant \in Variants
    /\ csrf = ""
    /\ query = <<>>
    /\ token_requests = 0
    /\ page_sent = FALSE
    /\ tokens = <<>>
    /\ aerr = ""
    /\ accepted = 0
    /\ parsed = FALSE
    /\ returned = <<>>

\* The authorization flow is not running.
AQuiet ==
    /\ apc = "off"
    /\ variant = "generate_tokens"
    /\ csrf = ""
    /\ query = <<>>
    /\ token_requests = 0
    /\ page_sent = FALSE
    /\ tokens = <<>>
    /\ aerr = ""
    /\ accepted = 0
    /\ parsed = FALSE
    /\ returned = <<>>

\* generate_tokens lines 58-74 (authenticate 38-57): the client, the PKCE pair
\* and the CSRF state are made, the URL is shown, the listener is started.
AuthStart ==
    /\ apc = "init"
    /\ \E ok \in BOOLEAN, st \in CsrfTokens :
         IF ok
         THEN /\ apc' = "listening"
              /\ csrf' = st
              /\ aerr' = aerr
         ELSE \* the listener cannot bind (or the client id is not configured)
              /\ AFail(IF variant = "generate_tokens" THEN "ServerLaunch" ELSE "Other")
              /\ csrf' = csrf
    /\ UNCHANGED <<variant, query, token_requests, page_sent, tokens>>
    /\ UNCHANGED <<accepted, parsed, returned>>
    /\ UNCHANGED <<dvars, cvars, svars, rvars>>

\* generate_tokens lines 75-94 (authenticate 59-82): one callback is received
\* and parsed, and its state is compared with the generated one.
AuthCallback ==
    /\ apc = "listening"
    /\ \E received \in BOOLEAN, url_ok \in BOOLEAN, q \in Queries :
         IF ~received
         THEN \* server.recv() / read_line failed
              /\ AFail("Io")
              /\ UNCHANGED <<query, accepted, parsed>>
         ELSE IF ~url_ok
         THEN \* Url::parse failed
              /\ AFail("OAuthUrlParse")
              /\ accepted' = accepted + 1
              /\ UNCHANGED <<query, parsed>>
         ELSE /\ query' = q
              /\ accepted' = accepted + 1
              /\ parsed' = TRUE
              /\ LET r == parse_callback(csrf, q)
                 IN IF r.tag = "Err"
                    THEN AFail(r.val)
                    ELSE apc' = "checked" /\ aerr' = aerr
    /\ UNCHANGED <<variant, csrf, token_requests, page_sent, tokens, returned>>
    /\ UNCHANGED <<dvars, cvars, svars, rvars>>

\* generate_tokens lines 96-109 (authenticate 84-97): the code is exchanged at
\* the token endpoint; a missing refresh token becomes "".
AuthExchange ==
    /\ apc = "checked"
    /\ token_requests' = token_requests + 1
    /\ \E ok \in BOOLEAN, refresh \in {"", "rt1"} :
         IF ~ok
         THEN AFail("failed to exchange authorization code for access token")
              /\ UNCHANGED <<tokens, returned>>
         ELSE IF variant = "generate_tokens"
         THEN /\ apc' = "exchanged"
              /\ tokens' = <<[access_token |-> "at1", refresh_token |-> refresh]>>
              /\ aerr' = aerr
              /\ returned' = returned
         ELSE /\ apc' = "done"
              /\ tokens' = <<[access_token |-> "at1", refresh_token |-> refresh]>>
              /\ aerr' = aerr
              /\ returned' = tokens'
    /\ UNCHANGED <<variant, csrf, query, page_sent, accepted, parsed>>
    /\ UNCHANGED <<dvars, cvars, svars, rvars>>

\* Mutant of AuthRespond: the pair is returned whether or not the page went out.
AuthRespond_bug ==
    /\ apc = "exchanged"
    /\ \E ok \in BOOLEAN :
         /\ apc' = "done"
         /\ page_sent' = ok
         /\ aerr' = aerr
         /\ returned' = tokens
    /\ UNCHANGED <<variant, csrf, query, token_requests, tokens, accepted, parsed>>
    /\ UNCHANGED <<dvars, cvars, svars, rvars>>

\* generate_tokens lines 111-117: the success page is sent, then the pair is
\* returned.
AuthRespond ==
    /\ apc = "exchanged"
    /\ \E ok \in BOOLEAN :
         IF ok
         THEN /\ apc' = "done"
              /\ page_sent' = TRUE
              /\ aerr' = aerr
              /\ returned' = tokens
         ELSE /\ AFail("Io")
              /\ UNCHANGED <<page_sent, returned>>
    /\ UNCHANGED <<variant, csrf, query, token_requests, tokens, accepted, parsed>>
    /\ UNCHANGED <<dvars, cvars, svars, rvars>>

\* The dispatcher is not running.
DQuiet ==
    /\ clients = <<>>
    /\ info_enabled = FALSE
    /\ dpc = "off"
    /\ req = <<>>
    /\ resp = <<>>
    /\ calls = <<>>
    /\ loads = 0
    /\ runs = <<>>
    /\ fetched = <<>>
    /\ chain = <<>>
    /\ raised = ""
    /\ clients0 = <<>>
    /\ hist = "fresh"

(***************************************************************************)
(* Credential store: Cache, Credential, CacheManager (cache.rs)            *)
(***************************************************************************)
ScopeNames == {"tweet.read", "users.read"}
AccountIds == {"u1", "u2"}
AccessTokens == {"t1", "t2"}
RefreshTokens == {"", "r1"}
CredentialState == {"Cached", "Expired", "Valid"}

Credential ==
    [access_token : AccessTokens, refresh_token : RefreshTokens, state : CredentialState]
\* HashMap<String, Credential>
AccountMaps == UNION {[ids -> Credential] : ids \in SUBSET AccountIds}

\* What serde writes for a Credential: state is #[serde(skip)].
StoredCredential == [access_token : AccessTokens, refresh_token : RefreshTokens]
StoredAccounts == UNION {[ids -> StoredCredential] : ids \in SUBSET AccountIds}

Range(f) == {f[x] : x \in DOMAIN f}
\* The orders in which a HashSet may be iterated.
Orders(S) == {q \in [1 .. Cardinality(S) -> S] : Range(q) = S}

\* The file: missing, not a Cache in JSON, or a JSON object with a "scopes"
\* array and an "accounts" object.
Absent == [kind |-> "absent"]
Corrupt == [kind |-> "corrupt"]
Json(scopes, accounts) == [kind |-> "json", scopes |-> scopes, accounts |-> accounts]
Files ==
    {Absent, Corrupt}
    \cup {Json(q, a) : q \in UNION {Orders(S) : S \in SUBSET ScopeNames}, a \in StoredAccounts}

\* Mutant of Credential_serialize: the refresh token is skipped as well.
Credential_serialize_bug(c) == [access_token |-> c.access_token, refresh_token |-> ""]

\* #[derive(Serialize)] for Credential
Credential_serialize(c) ==
    [access_token |-> c.access_token, refresh_token |-> c.refresh_token]

\* #[derive(Deserialize)] for Credential: the skipped state is its default.
Credential_deserialize(j) ==
    [access_token |-> j.access_token, refresh_token |-> j.refresh_token,
     state |-> "Cached"]

\* serde_json::to_string(&Cache { scopes, accounts }), the set written in order q.
to_string(scopes, accounts, q) ==
    Json(q, [id \in DOMAIN accounts |-> Credential_serialize(accounts[id])])

\* serde_json::from_str::<Cache>: the array becomes a set again.
from_str(f) ==
    [scopes |-> Range(f.scopes),
     accounts |-> [id \in DOMAIN f.accounts |-> Credential_deserialize(f.accounts[id])]]

\* #[derive(Default)] for Cache
Cache_default == [scopes |-> {}, accounts |-> <<>>]

\* CacheManager::load, the file being f; opened says whether File::open and
\* read_to_string succeed on an existing file.
CacheManager_load(f, opened) ==
    CASE f.kind = "absent" -> Ok(<<>>)
      [] f.kind # "absent" /\ ~opened -> Err("Io")
      [] f.kind = "corrupt" /\ opened -> Err("CacheParse")
      [] f.kind = "json" /\ opened -> Ok(<<from_str(f)>>)

\* CacheManager::save, the file being f.  created and written say whether
\* File::create and write_all succeed: a failed create leaves the file, a
\* failed write leaves a truncated one.
CacheManager_save(f, scopes, credentials, q, created, written) ==
    IF ~created
    THEN [ret |-> Err("Io"), file |-> f]
    ELSE IF ~written
    THEN [ret |-> Err("Io"), file |-> Corrupt]
    ELSE [ret |-> Ok("unit"), file |-> to_string(scopes, credentials, q)]

CInit ==
    /\ file \in Files
    /\ cpc = "idle"
    /\ before = <<>>
    /\ saved = <<>>
    /\ loaded = <<>>

\* The credential store is not in use.
CQuiet ==
    /\ file = Absent
    /\ cpc = "off"
    /\ before = <<>>
    /\ saved = <<>>
    /\ loaded = <<>>

\* CacheManager::save(scopes, credentials)
Save ==
    /\ cpc = "idle"
    /\ \E scopes \in SUBSET ScopeNames, credentials \in AccountMaps,
          created \in BOOLEAN, written \in BOOLEAN :
         \E q \in Orders(scopes) :
            LET r == CacheManager_save(file, scopes, credentials, q, created, written)
            IN /\ file' = r.file
               /\ saved' = IF r.ret.tag = "Ok"
                           THEN <<[scopes |-> scopes, accounts |-> credentials]>>
                           ELSE <<>>
    /\ before' = <<file>>
    /\ cpc' = "saved"
    /\ loaded' = <<>>
    /\ UNCHANGED <<dvars, avars, svars, rvars>>

\* Another writer replaces the file between the save and the load.
OtherWriter ==
    /\ cpc = "saved"
    /\ saved # <<>>
    /\ \E f \in {Absent, Corrupt, Json(<<>>, <<>>)} : file' = f
    /\ saved' = <<>>
    /\ UNCHANGED <<cpc, before, loaded>>
    /\ UNCHANGED <<dvars, avars, svars, rvars>>

\* CacheManager::load()
Load ==
    /\ cpc \in {"idle", "saved"}
    /\ \E opened \in BOOLEAN : loaded' = <<CacheManager_load(file, opened)>>
    /\ cpc' = "loaded"
    /\ UNCHANGED <<file, before, saved>>
    /\ UNCHANGED <<dvars, avars, svars, rvars>>

(***************************************************************************)
(* Session builder: Auth::clients (auth.rs)                                *)
(***************************************************************************)
\* Cache::new(path): the stored content, or the default content when there is
\* no file yet.
Cache_new(f, opened) ==
    LET r == CacheManager_load(f, opened)
    IN IF r.tag = "Err"
       THEN r
       ELSE IF r.val = <<>> THEN Ok(Cache_default) ELSE Ok(r.val[1])

\* cache.save(): the content held in memory is written back.
Cache_save(f, content, q, created, written) ==
    CacheManager_save(f, content.scopes, content.accounts, q, created, written)

\* Mutant of scopes_updated: stored scopes that cover the configured ones pass.
scopes_updated_bug(cache_scopes, self_scopes) == ~(self_scopes \subseteq cache_scopes)

\* cache.content.scopes != self.scopes  (auth.rs 40)
scopes_updated(cache_scopes, self_scopes) == cache_scopes # self_scopes

SInit ==
    /\ cfg_scopes \in SUBSET ScopeNames
    /\ spc = "init"
    /\ file0 = file
    /\ cache = <<>>
    /\ pending = {}
    /\ checked = {}
    /\ passed = {}
    /\ res = <<>>
    /\ writes = 0
    /\ sret = <<>>
    /\ serr = ""

\* clients() is not running.
SQuiet ==
    /\ cfg_scopes = {}
    /\ spc = "off"
    /\ file0 = Absent
    /\ cache = <<>>
    /\ pending = {}
    /\ checked = {}
    /\ passed = {}
    /\ res = <<>>
    /\ writes = 0
    /\ sret = <<>>
    /\ serr = ""

SFail(e) ==
    /\ spc' = "failed"
    /\ serr' = e

\* clients() lines 37-44: the cache is loaded and its scopes are compared.
ClientsLoad ==
    /\ spc = "init"
    /\ \E opened \in BOOLEAN :
         LET r == Cache_new(file, opened)
         IN IF r.tag = "Err"
            THEN /\ SFail(r.val)
                 /\ UNCHANGED <<cache, pending, sret>>
            ELSE IF scopes_updated(r.val.scopes, cfg_scopes)
            THEN /\ spc' = "done"
                 /\ sret' = <<<<>>>>
                 /\ UNCHANGED <<cache, pending, serr>>
            ELSE /\ spc' = "validating"
                 /\ cache' = <<r.val>>
                 /\ pending' = DOMAIN r.val.accounts
                 /\ UNCHANGED <<sret, serr>>
    /\ UNCHANGED <<cfg_scopes, file0, checked, passed, res, writes>>
    /\ UNCHANGED <<dvars, avars, cvars, rvars>>

\* Mutant of ClientsValidate: when a check fails with an error, the store is
\* written from memory before the error is returned.
ClientsValidate_bug ==
    /\ spc = "validating"
    /\ \E id \in pending, verdict \in {"valid", "invalid", "error"} :
         LET acc == cache[1].accounts[id]
         IN /\ pending' = pending \ {id}
            /\ checked' = checked \cup {id}
            /\ CASE verdict = "error" ->
                       /\ SFail("ApiRequest")
                       /\ \E q \in Orders(cache[1].scopes) :
                             file' = Cache_save(file, cache[1], q, TRUE, TRUE).file
                       /\ writes' = writes + 1
                       /\ UNCHANGED <<passed, res>>
                 [] verdict = "invalid" ->
                       UNCHANGED <<spc, serr, passed, res, file, writes>>
                 [] verdict = "valid" ->
                       \E who \in {Ok(u) : u \in AccountIds} \cup {Err("ApiRequest")} :
                          IF who.tag = "Err"
                          THEN /\ SFail(who.val)
                               /\ passed' = passed \cup {id}
                               /\ UNCHANGED <<res, file, writes>>
                          ELSE /\ passed' = passed \cup {id}
                               /\ res' = [u \in DOMAIN res \cup {who.val} |->
                                            IF u = who.val
                                            THEN ApiClient(who.val, acc.access_token)
                                            ELSE res[u]]
                               /\ UNCHANGED <<spc, serr, file, writes>>
    /\ UNCHANGED <<cfg_scopes, file0, cache, sret>>
    /\ UNCHANGED <<cpc, before, saved, loaded>>
    /\ UNCHANGED <<dvars, avars, rvars>>

\* clients() lines 45-50: one iteration of the loop over the stored accounts.
\* validate_token answers valid or invalid, or fails; ApiClient::new asks the
\* API whose token it is, or fails.
ClientsValidate ==
    /\ spc = "validating"
    /\ \E id \in pending, verdict \in {"valid", "invalid", "error"} :
         LET acc == cache[1].accounts[id]
         IN /\ pending' = pending \ {id}
            /\ checked' = checked \cup {id}
            /\ CASE verdict = "error" ->
                       /\ SFail("ApiRequest")
                       /\ UNCHANGED <<passed, res>>
                 [] verdict = "invalid" ->
                       UNCHANGED <<spc, serr, passed, res>>
                 [] verdict = "valid" ->
                       \E who \in {Ok(u) : u \in AccountIds} \cup {Err("ApiRequest")} :
                          IF who.tag = "Err"
                          THEN /\ SFail(who.val)
                               /\ passed' = passed \cup {id}
                               /\ res' = res
                          ELSE /\ passed' = passed \cup {id}
                               /\ res' = [u \in DOMAIN res \cup {who.val} |->
                                            IF u = who.val
                                            THEN ApiClient(who.val, acc.access_token)
                                            ELSE res[u]]
                               /\ UNCHANGED <<spc, serr>>
    /\ UNCHANGED <<cfg_scopes, file0, cache, writes, sret>>
    /\ UNCHANGED <<dvars, avars, cvars, rvars>>

\* Mutant of ClientsSave: the save does not wait for the loop to end.
ClientsSave_bug ==
    /\ spc = "validating"
    /\ \E created \in BOOLEAN, written \in BOOLEAN :
         \E q \in Orders(cache[1].scopes) :
            LET r == Cache_save(file, cache[1], q, created, written)
            IN /\ file' = r.file
               /\ writes' = IF created THEN writes + 1 ELSE writes
               /\ IF r.ret.tag = "Err"
                  THEN SFail(r.ret.val) /\ sret' = sret
                  ELSE spc' = "done" /\ sret' = <<res>> /\ serr' = serr
    /\ UNCHANGED <<cfg_scopes, file0, cache, pending, checked, passed, res>>
    /\ UNCHANGED <<cpc, before, saved, loaded>>
    /\ UNCHANGED <<dvars, avars, rvars>>

\* clients() lines 51-53: after the loop the cache is saved and the map returned.
ClientsSave ==
    /\ spc = "validating"
    /\ pending = {}
    /\ \E created \in BOOLEAN, written \in BOOLEAN :
         \E q \in Orders(cache[1].scopes) :
            LET r == Cache_save(file, cache[1], q, created, written)
            IN /\ file' = r.file
               /\ writes' = IF created THEN writes + 1 ELSE writes
               /\ IF r.ret.tag = "Err"
                  THEN SFail(r.ret.val) /\ sret' = sret
                  ELSE spc' = "done" /\ sret' = <<res>> /\ serr' = serr
    /\ UNCHANGED <<cfg_scopes, file0, cache, pending, checked, passed, res>>
    /\ UNCHANGED <<cpc, before, saved, loaded>>
    /\ UNCHANGED <<dvars, avars, rvars>>

(***************************************************************************)
(* Re-authorization: an account is authorized again and its new credential *)
(* is saved in the store, which is overwritten wholesale.                  *)
(***************************************************************************)
\* The credential a re-authorization obtains.
NewCredential == [access_token |-> "t3", refresh_token |-> "r1", state |-> "Valid"]

RInit ==
    /\ rpc = "init"
    /\ rcache = <<>>
    /\ rid = ""

\* No re-authorization is running.
RQuiet ==
    /\ rpc = "off"
    /\ rcache = <<>>
    /\ rid = ""

\* The re-authorization loads the store; a store recorded for other scopes
\* counts as empty.
ReauthLoad ==
    /\ rpc = "init"
    /\ \E opened \in BOOLEAN :
         LET r == Cache_new(file, opened)
         IN IF r.tag = "Err"
            THEN rpc' = "failed" /\ rcache' = rcache
            ELSE /\ rpc' = "loaded"
                 /\ rcache' = <<IF scopes_updated(r.val.scopes, cfg_scopes)
                                THEN [scopes |-> cfg_scopes, accounts |-> <<>>]
                                ELSE r.val>>
    /\ rid' = rid
    /\ UNCHANGED <<dvars, avars, cvars, svars>>

\* The re-authorization adds the new credential to what it loaded and saves
\* the whole store.
ReauthSave ==
    /\ rpc = "loaded"
    /\ \E id \in AccountIds, created \in BOOLEAN, written \in BOOLEAN :
         \E q \in Orders(rcache[1].scopes) :
            LET accounts == [a \in DOMAIN rcache[1].accounts \cup {id} |->
                               IF a = id THEN NewCredential
                               ELSE rcache[1].accounts[a]]
                r == CacheManager_save(file, rcache[1].scopes, accounts, q,
                                       created, written)
            IN /\ file' = r.file
               /\ rid' = id
               /\ rpc' = IF r.ret.tag = "Err" THEN "failed" ELSE "done"
    /\ rcache' = rcache
    /\ UNCHANGED <<cpc, before, saved, loaded>>
    /\ UNCHANGED <<dvars, avars, svars>>

Init == DInit /\ AQuiet /\ CQuiet /\ SQuiet /\ RQuiet
Next == Receive \/ handle \/ Reply
Spec == Init /\ [][Next]_vars

CacheInit == DQuiet /\ AQuiet /\ CInit /\ SQuiet /\ RQuiet
CacheNext == Save \/ OtherWriter \/ Load
CacheSpec == CacheInit /\ [][CacheNext]_vars

SessionInit ==
    /\ DQuiet /\ AQuiet
    /\ file \in Files
    /\ cpc = "off" /\ before = <<>> /\ saved = <<>> /\ loaded = <<>>
    /\ SInit
    /\ RQuiet
SessionNext == ClientsLoad \/ ClientsValidate \/ ClientsSave
SessionSpec == SessionInit /\ [][SessionNext]_vars

\* clients() at startup and a re-authorization, with nothing ordering them.
RaceInit ==
    /\ DQuiet /\ AQuiet
    /\ file \in Files
    /\ cpc = "off" /\ before = <<>> /\ saved = <<>> /\ loaded = <<>>
    /\ SInit
    /\ RInit
RaceNext == SessionNext \/ ReauthLoad \/ ReauthSave
RaceSpec == RaceInit /\ [][RaceNext]_vars

AuthInit == DQuiet /\ AInit /\ CQuiet /\ SQuiet /\ RQuiet
AuthNext == AuthStart \/ AuthCallback \/ AuthExchange \/ AuthRespond
AuthSpec == AuthInit /\ [][AuthNext]_vars

(***************************************************************************)
(* Claims about the authorization flow                                     *)
(***************************************************************************)
\* C6: if the state returned in the callback is not exactly the CSRF state
\* generated at the start of the flow, the flow fails and no request is ever
\* made to the token endpoint; a token request is made only after the
\* comparison succeeded.
C6_CsrfBeforeExchange ==
    /\ (/\ apc # "init" /\ apc # "listening"
        /\ query # <<>>
        /\ find_map(query, "code") # <<>>
        /\ find_map(query, "state") # <<>>
        /\ find_map(query, "state") # <<csrf>>) =>
            (apc = "failed" /\ token_requests = 0 /\ tokens = <<>>)
    /\ token_requests > 0 => find_map(query, "state") = <<csrf>>

C6_Witness ==
    /\ apc = "failed"
    /\ aerr = "invalid csrf state"
    /\ csrf = "st1"
    /\ query = <<<<"code", "c1">>, <<"state", "st1x">>>>
    /\ token_requests = 0

(***************************************************************************)
(* Claims about the request dispatcher                                     *)
(***************************************************************************)
Handled == dpc \in {"responded", "panicked"}
Responded == dpc = "responded" /\ Len(resp) = 1
IsError == Responded /\ resp[1].content.tag = "Error"
IsResult == Responded /\ resp[1].content.tag # "Error"

\* The wire keys of a serialized Response: content is flattened, and every
\* variant of ResponseContent is renamed to "result" or "error".
WireKeys(r) ==
    {"jsonrpc", "id"} \cup (IF r.content.tag = "Error" THEN {"error"} ELSE {"result"})
ErrorCodes == {-32700, -32600, -32602, -32603, -32000, -32001, -32002, -32099}
WellFormed(r) ==
    /\ r.jsonrpc = JSONRPC_VERSION
    /\ Cardinality(WireKeys(r) \cap {"result", "error"}) = 1
    /\ r.content.tag = "Error" => r.content.code \in ErrorCodes

\* C1 (as claimed): every request handed to handle() ends in a well-formed
\* Response carrying a mapped error code or a result; handle() never panics.
C1_AlwaysResponse ==
    Handled => (Responded /\ WellFormed(resp[1]))

\* C2: every Response the dispatcher returns carries the id of the request it
\* answers, for result responses and for error responses alike.
C2_IdEchoed ==
    Responded => resp[1].id = req[1].id

C2_Witness ==
    /\ IsError
    /\ req[1].id = "2"
    /\ resp[1].id = "2"

\* C3: a request whose version is not "2.0" is answered with error -32600 and
\* its own id, whatever its method and params, and no handler has run for it:
\* no upstream call, no filter load, no filter run.
C3_VersionRejected ==
    (Handled /\ req[1].jsonrpc # "2.0") =>
        /\ IsError
        /\ resp[1].content.code = -32600
        /\ resp[1].id = req[1].id
        /\ calls = <<>> /\ loads = 0 /\ runs = <<>>

C3_Witness ==
    /\ IsError
    /\ req[1].jsonrpc = "1.0"
    /\ req[1].method = "HomeTimeline"
    /\ req[1].params.tag = "MapWithId"
    /\ req[1].params.user_id \in DOMAIN clients
    /\ resp[1].content.code = -32600

\* A request whose params have the shape its method requires and that names
\* an account.
CorrectlyShaped(rq) ==
    \/ rq.method = "HomeTimeline" /\ rq.params.tag = "MapWithId"
    \/ rq.method = "Plain" /\ rq.params.tag = "Plain"

\* C4 (as claimed): a correctly shaped home-timeline or plain-call request that
\* names an account absent from the session map gets an error response that is
\* neither the parameter-mismatch error nor an upstream error, and no upstream
\* call is made.
C4_UnknownAccount ==
    (/\ Handled
     /\ req[1].jsonrpc = JSONRPC_VERSION
     /\ CorrectlyShaped(req[1])
     /\ req[1].params.user_id \notin DOMAIN clients) =>
        /\ IsError
        /\ resp[1].content.code \notin {-32602, -32000, -32001}
        /\ calls = <<>>

\* The value of tweet t after the first k filters of fs.
RECURSIVE ChainValue(_, _, _)
ChainValue(fs, k, t) ==
    IF k = 0 THEN t ELSE Filter_run(fs[k], ChainValue(fs, k - 1, t)).val.t

\* Each of the first k filters of fs accepts tweet t, given its predecessor's output.
RECURSIVE AcceptsUpTo(_, _, _)
AcceptsUpTo(fs, k, t) ==
    \/ k = 0
    \/ /\ AcceptsUpTo(fs, k - 1, t)
       /\ LET out == Filter_run(fs[k], ChainValue(fs, k - 1, t))
          IN out.tag = "Ok" /\ out.val.some

\* The items every filter accepts, in timeline order, as the chain leaves them.
ExpectedBody(tw, fs) ==
    LET kept == {i \in 1 .. Len(tw) : AcceptsUpTo(fs, Len(fs), tw[i])}
        nth(j) == CHOOSE i \in kept : Cardinality({x \in kept : x <= i}) = j
    IN [j \in 1 .. Cardinality(kept) |-> ChainValue(fs, Len(fs), tw[nth(j)])]

\* C5: in a home-timeline result, the body holds exactly the items every filter
\* of the chain accepts, each filter being given its predecessor's output, in
\* timeline order; a filter runs on an item iff every earlier filter accepted
\* it (nothing runs after a drop), once, on its predecessor's output.
C5_FilterChain ==
    (IsResult /\ resp[1].content.tag = "HomeTimeline") =>
        LET tw == fetched[1]
            fs == chain[1]
        IN /\ resp[1].content.body = ExpectedBody(tw, fs)
           /\ {<<runs[n][1], runs[n][2]>> : n \in 1 .. Len(runs)}
                = {p \in (1 .. Len(tw)) \X (1 .. Len(fs)) :
                        AcceptsUpTo(fs, p[2] - 1, tw[p[1]])}
           /\ \A n \in 1 .. Len(runs) :
                /\ runs[n][3] = ChainValue(fs, runs[n][2] - 1, tw[runs[n][1]])
                /\ \A m \in 1 .. Len(runs) :
                      (runs[m][1] = runs[n][1] /\ runs[m][2] = runs[n][2]) => m = n

C5_Witness ==
    /\ IsResult
    /\ resp[1].content.tag = "HomeTimeline"
    /\ chain[1] = <<"inc", "dropzero">>
    /\ fetched[1] = <<TweetMod - 1, 0>>
    /\ resp[1].content.body = <<1>>
    /\ Len(runs) = 4

\* C10: a status or account-list request with version "2.0" whose params is
\* present and not empty is answered with error -32602, whatever the keys and
\* whatever the session map.
C10_NonEmptyParamsRejected ==
    (/\ Handled
     /\ req[1].jsonrpc = "2.0"
     /\ req[1].method \in {"Status", "AccountList"}
     /\ req[1].raw.present /\ req[1].raw.keys # {}) =>
        /\ IsError
        /\ resp[1].content.code = -32602

C10_Witness ==
    /\ IsError
    /\ req[1].method = "Status"
    /\ req[1].params.tag = "Map"
    /\ req[1].params.map = {"x"}
    /\ DOMAIN clients # {}
    /\ resp[1].content.code = -32602

(***************************************************************************)
(* Claims about the credential store                                       *)
(***************************************************************************)
\* C9: whatever the store held before, a save(scopes, accounts) that returned
\* Ok followed by a load() that could read the file, nothing else having
\* written the file in between, yields the same scope set and the same account ids with the same access and
\* refresh tokens; accounts that were not passed to save are gone.
C9_RoundTrip ==
    (cpc = "loaded" /\ saved # <<>> /\ loaded[1] # Err("Io")) =>
        /\ loaded[1].tag = "Ok"
        /\ Len(loaded[1].val) = 1
        /\ LET got == loaded[1].val[1]
               put == saved[1]
           IN /\ got.scopes = put.scopes
              /\ DOMAIN got.accounts = DOMAIN put.accounts
              /\ \A id \in DOMAIN put.accounts :
                    /\ got.accounts[id].access_token = put.accounts[id].access_token
                    /\ got.accounts[id].refresh_token = put.accounts[id].refresh_token

C9_Witness ==
    /\ cpc = "loaded"
    /\ saved # <<>>
    /\ before = <<Json(<<"users.read">>, [id \in {"u2"} |->
                        [access_token |-> "t2", refresh_token |-> ""]])>>
    /\ saved[1].scopes = ScopeNames
    /\ DOMAIN saved[1].accounts = {"u1"}
    /\ saved[1].accounts["u1"].refresh_token = "r1"
    /\ saved[1].accounts["u1"].state = "Valid"
    /\ loaded[1].tag = "Ok"
    /\ DOMAIN loaded[1].val[1].accounts = {"u1"}

(***************************************************************************)
(* Claims about the session builder                                        *)
(***************************************************************************)
\* clients() returned an empty map without error, having checked no credential
\* and left the file as it was.
NothingDone ==
    /\ spc = "done"
    /\ sret = <<<<>>>>
    /\ serr = ""
    /\ checked = {}
    /\ writes = 0
    /\ file = file0

\* The store was read and records a scope set other than the configured one.
ScopesDiffer ==
    /\ file0.kind = "json"
    /\ serr # "Io"
    /\ Range(file0.scopes) # cfg_scopes

C8_PrunedStore ==
    (spc = "done" /\ cache # <<>>) =>
        /\ {sret[1][u].access_token : u \in DOMAIN sret[1]}
             = {cache[1].accounts[id].access_token : id \in passed}
        /\ file.kind = "json"
        /\ Range(file.scopes) = cfg_scopes
        /\ DOMAIN file.accounts = passed
        /\ \A id \in passed :
              file.accounts[id] = Credential_serialize(cache[1].accounts[id])

(***************************************************************************)
(* Further claims about the request dispatcher                             *)
(***************************************************************************)
\* The wire code the error table gives each failure kind it names.
TableCode(kind) ==
    CASE kind \in {"SocketPayloadParse", "RpcParamsParse"} -> -32700
      [] kind = "RpcVersion" -> -32600
      [] kind = "RpcParamsMismatch" -> -32602
      [] kind = "RpcTooLarge" -> -32603
      [] kind \in {"Io", "ApiRequest", "ApiResponseParse", "ApiResponseNotFound",
                   "ApiResponseSerialize", "ApiExpiredToken", "OAuth",
                   "OAuthUrlParse"} -> -32000
      [] kind = "ApiResponseStatus" -> -32001
      [] kind = "Lua" -> -32002
      [] kind = "Other" -> -32099
      [] OTHER -> 0

\* C11 (as claimed): every failure a request handler raises is mapped to a wire
\* code of the table, the code the table gives its kind; the mapping is total
\* over the failures handlers raise.
C11_TotalMapping ==
    (Handled /\ raised # "") =>
        /\ IsError
        /\ resp[1].content.code \in ErrorCodes
        /\ TableCode(raised) # 0 => resp[1].content.code = TableCode(raised)

\* The shape a params object structurally matches first, most specific first.
FirstShape(raw) ==
    CASE ~raw.present -> "Map"
      [] raw.present
         /\ {"user_id", "http_method", "endpoint", "api_params"} \subseteq raw.keys
            -> "Plain"
      [] raw.present
         /\ {"user_id", "api_params"} \subseteq raw.keys
         /\ ~({"http_method", "endpoint"} \subseteq raw.keys)
            -> "MapWithId"
      [] OTHER -> "Map"

\* C12: the shape chosen for a params object is the first it matches in the
\* order Plain, MapWithId, Map; a plain-call request with its four fields is
\* never rejected as a parameter mismatch, and a home-timeline request with
\* user_id and api_params is never taken for a generic map.
C12_MostSpecificFirst ==
    req # <<>> =>
        /\ req[1].params.tag = FirstShape(req[1].raw)
        /\ (/\ Handled
            /\ req[1].jsonrpc = JSONRPC_VERSION
            /\ req[1].method = "Plain"
            /\ {"user_id", "http_method", "endpoint", "api_params"}
                  \subseteq req[1].raw.keys) =>
              (raised # "RpcParamsMismatch"
               /\ ~(IsError /\ resp[1].content.code = -32602))
        /\ (/\ req[1].method = "HomeTimeline"
            /\ {"user_id", "api_params"} \subseteq req[1].raw.keys) =>
              req[1].params.tag # "Map"

C12_Witness ==
    /\ IsResult
    /\ req[1].method = "Plain"
    /\ req[1].raw.keys = ParamKeys
    /\ req[1].params.tag = "Plain"
    /\ resp[1].content.tag = "Plain"

\* C13: a status request with version "2.0" and an empty params map, or no
\* params at all, gets the result {version: VERSION} with its own id, whatever
\* the session map holds, and no upstream call is made.
C13_StatusResult ==
    (/\ Handled
     /\ req[1].jsonrpc = "2.0"
     /\ req[1].method = "Status"
     /\ (~req[1].raw.present \/ req[1].raw.keys = {})) =>
        /\ Responded
        /\ resp[1] = [jsonrpc |-> "2.0",
                      content |-> [tag |-> "Status", version |-> VERSION],
                      id |-> req[1].id]
        /\ calls = <<>> /\ loads = 0

C13_Witness ==
    /\ IsResult
    /\ req[1].method = "Status"
    /\ ~req[1].raw.present
    /\ DOMAIN clients = {}
    /\ resp[1].content.tag = "Status"
    /\ resp[1].id = "2"

\* C16: the session map is read-only for the dispatcher: in every state, after
\* any requests of any method and outcome, it holds what it held when the
\* Handler was built.
C16_SessionMapReadOnly ==
    clients = clients0

C16_Witness ==
    /\ hist = "after_filter_failure"
    /\ IsError
    /\ raised = "ApiExpiredToken"
    /\ DOMAIN clients = KnownUsers
    /\ clients = clients0

\* C19: a filter that raises while a home-timeline request is filtered does
\* not crash the dispatcher: the request gets a well-formed error response
\* with code -32002 and its own id.  Later requests are not affected: the
\* session map is what it was, and a home-timeline request handled afterwards
\* gets the body its own timeline and chain call for.
C19_FilterFailureContained ==
    /\ (Handled /\ raised = "Lua" /\ chain # <<>>) =>
          /\ Responded
          /\ WellFormed(resp[1])
          /\ resp[1].content.tag = "Error"
          /\ resp[1].content.code = -32002
          /\ resp[1].id = req[1].id
    /\ hist = "after_filter_failure" =>
          /\ clients = clients0
          /\ dpc = "idle" =>
                (req = <<>> /\ resp = <<>> /\ runs = <<>> /\ chain = <<>> /\ raised = "")
          /\ (IsResult /\ resp[1].content.tag = "HomeTimeline") =>
                resp[1].content.body = ExpectedBody(fetched[1], chain[1])

C19_Witness ==
    /\ hist = "after_filter_failure"
    /\ IsResult
    /\ resp[1].content.tag = "HomeTimeline"
    /\ chain[1] = <<"failtop">>
    /\ fetched[1] = <<0, 1>>
    /\ resp[1].content.body = <<0, 1>>

\* C20 (as claimed): a correctly shaped home-timeline request for a known
\* account whose timeline fetch succeeds with zero items (the filters loading)
\* gets a result with an empty body and its own id; the handler never aborts.
C20_EmptyTimeline ==
    (/\ Handled
     /\ fetched = <<<<>>>>
     /\ ~(loads = 1 /\ chain = <<>>)) =>
        /\ IsResult
        /\ resp[1].content.tag = "HomeTimeline"
        /\ resp[1].content.body = <<>>
        /\ resp[1].id = req[1].id

(***************************************************************************)
(* Further claims about the authorization flow                             *)
(***************************************************************************)
NoExchange ==
    /\ apc = "failed"
    /\ token_requests = 0
    /\ tokens = <<>>
    /\ returned = <<>>
    /\ ~page_sent

\* C17: a callback whose query string lacks code fails the flow with the
\* missing-code error; one that has code but lacks state fails it with the
\* missing-state error, a different one; in both cases the flow has ended
\* without a successful state comparison and without any token exchange.
C17_MissingCodeOrState ==
    parsed =>
        /\ find_map(query, "code") = <<>> =>
              (aerr = "no authorization code was returned" /\ NoExchange)
        /\ (find_map(query, "code") # <<>> /\ find_map(query, "state") = <<>>) =>
              (aerr = "no state was returned" /\ NoExchange)

C17_Witness ==
    /\ parsed
    /\ apc = "failed"
    /\ variant = "generate_tokens"
    /\ query = <<<<"x", "v">>, <<"code", "c1">>>>
    /\ aerr = "no state was returned"

\* C18: the steps of the flow happen in a fixed order: exactly one inbound
\* request is accepted before anything else, the state check precedes the
\* token exchange, the success page is sent only after the exchange succeeded,
\* the pair is returned only after the page was sent; after a failed step no
\* page has been sent and no pair is returned.
C18_FixedOrder ==
    /\ accepted <= 1
    /\ apc \in {"checked", "exchanged", "done"} => accepted = 1
    /\ token_requests <= 1
    /\ token_requests > 0 =>
          (/\ accepted = 1
           /\ parsed
           /\ find_map(query, "state") = <<csrf>>)
    /\ tokens # <<>> => token_requests = 1
    /\ variant = "generate_tokens" =>
          /\ page_sent => (tokens # <<>> /\ aerr = "")
          /\ returned # <<>> => (page_sent /\ returned = tokens)
    /\ variant = "authenticate" =>
          (returned # <<>> => (tokens # <<>> /\ returned = tokens))
    /\ apc = "done" => returned # <<>>
    /\ apc = "failed" => (~page_sent /\ returned = <<>>)

C18_Witness ==
    /\ apc = "done"
    /\ variant = "generate_tokens"
    /\ accepted = 1
    /\ token_requests = 1
    /\ page_sent
    /\ returned = <<[access_token |-> "at1", refresh_token |-> ""]>>

(***************************************************************************)
(* Further claims about the session builder                                *)
(***************************************************************************)
\* C15: clients() writes the store at most once, and only after the validity
\* check of every stored credential has completed: once a write has been made
\* no check is pending and every stored account has been checked.
C15_SaveAfterAllChecks ==
    /\ writes <= 1
    /\ writes > 0 =>
          /\ cache # <<>>
          /\ pending = {}
          /\ checked = DOMAIN cache[1].accounts
    /\ (spc = "validating" /\ pending # {}) => (writes = 0 /\ file = file0)

C15_Witness ==
    /\ spc = "done"
    /\ writes = 1
    /\ Cardinality(checked) = 2
    /\ Cardinality(passed) = 1
    /\ pending = {}

\* C14 (as claimed): when a re-authorization runs concurrently with clients(),
\* no update is lost: once both have finished, the credential the
\* re-authorization wrote is still in the store.
C14_NoLostUpdate ==
    (rpc = "done" /\ spc = "done") =>
        /\ file.kind = "json"
        /\ rid \in DOMAIN file.accounts
        /\ file.accounts[rid] = Credential_serialize(NewCredential)

\* clients() returned the error of loading or parsing the store.
LoadFailed ==
    /\ spc = "failed"
    /\ cache = <<>>
    /\ serr \in {"Io", "CacheParse"}

\* clients() returned the error of a validity check or of the who-am-I lookup.
CheckFailed ==
    /\ spc = "failed"
    /\ cache # <<>>
    /\ serr = "ApiRequest"

\* C21: when clients() ends with an error because the store could not be
\* loaded or parsed, or because a validity check or the who-am-I lookup failed,
\* it has returned no session map and has not written the store: the file is
\* what it was before the call.
C21_ErrorLeavesStore ==
    (LoadFailed \/ CheckFailed) =>
        /\ sret = <<>>
        /\ writes = 0
        /\ file = file0

C21_Witness ==
    /\ CheckFailed
    /\ file0.kind = "json"
    /\ Cardinality(checked) = 2
    /\ Cardinality(passed) = 2
    /\ DOMAIN res # {}
    /\ sret = <<>>
    /\ file = file0

====
